---- MODULE Spec2Model ----
(***************************************************************************)
(* Model of SpotifySyncWall's image pipeline (src/utils/images.py) and of  *)
(* its Spotify client (src/utils/spotify.py).                              *)
(*                                                                         *)
(* Images are pixel grids: a record with the PIL mode, the width, the      *)
(* height and a function from <<x, y>> to a pixel tag.  Pixel tags say     *)
(* where a pixel comes from ("B" background, "C" cover, "T" opaque text,   *)
(* "K" the black of a fresh Image.new, "0" a fully transparent pixel).     *)
(* Python floats are modelled exactly: halves as a count of halves,        *)
(* luminances as a count of 1/10000.                                       *)
(***************************************************************************)
EXTENDS Integers, Sequences, FiniteSets, TLC

VARIABLES op, args, res, phase, finalImage,
          token, max_tries, retry_delay,
          spPc, attempt, requests, outcomes, ret

vars == <<op, args, res, phase, finalImage,
          token, max_tries, retry_delay,
          spPc, attempt, requests, outcomes, ret>>

imgVars == <<op, args, res, phase, finalImage>>
spVars == <<token, max_tries, retry_delay, spPc, attempt, requests, outcomes, ret>>

\* Largest width/height of a background, a cover or a display.
MaxDim == 3
\* Largest width/height of a source image given to the resizer.
MaxSrc == 4
\* Largest target width/height given to the resizer.
MaxTarget == 3

\* Display extents the compositor is called with, non-positive ones included.
DisplayValues == {0 - 1, 0} \cup (1..MaxDim)
\* Channel values the colours are built from.
ChannelValues == {0, 128, 255}
Colors == ChannelValues \X ChannelValues \X ChannelValues

NoImage == [mode |-> "none"]

----------------------------------------------------------------------------
(* The PIL primitives the code calls.                                      *)

Grid(w, h) == (0..(w - 1)) \X (0..(h - 1))

\* Image.new(mode, (w, h)): every pixel zero, i.e. black or transparent.
ImageNew(mode, w, h) ==
  [mode |-> mode, width |-> w, height |-> h,
   px |-> [p \in Grid(w, h) |-> IF mode = "RGBA" THEN "0" ELSE "K"]]

\* An image whose pixels all carry the same tag.
Uniform(mode, w, h, tag) ==
  [mode |-> mode, width |-> w, height |-> h, px |-> [p \in Grid(w, h) |-> tag]]

\* Alpha of a pixel: only "0" is transparent.
Opaque(tag) == tag # "0"

\* dst.paste(src, (ox, oy)) and dst.paste(src, (ox, oy), mask = src): the
\* pixels of src that fall inside dst overwrite it, the others are dropped;
\* with the mask only the opaque pixels of src are written.  dst keeps its
\* mode and size.
Paste(dst, src, ox, oy, masked) ==
  [dst EXCEPT !.px =
     [p \in Grid(dst.width, dst.height) |->
        LET sx == p[1] - ox
            sy == p[2] - oy
        IN IF /\ sx \in 0..(src.width - 1)
              /\ sy \in 0..(src.height - 1)
              /\ (masked => Opaque(src.px[<<sx, sy>>]))
           THEN src.px[<<sx, sy>>]
           ELSE dst.px[p]]]

\* image.resize((w, h), LANCZOS) for w, h >= 1: a w x h image of the same
\* mode; each pixel is sampled from the source pixel under it.
ImageResize(image, w, h) ==
  [mode |-> image.mode, width |-> w, height |-> h,
   px |-> [p \in Grid(w, h) |->
             image.px[<<(p[1] * image.width) \div w, (p[2] * image.height) \div h>>]]]

\* image.crop((left, upper, right, lower)) for a box inside the image.
ImageCrop(image, left, upper, right, lower) ==
  [mode |-> image.mode, width |-> right - left, height |-> lower - upper,
   px |-> [p \in Grid(right - left, lower - upper) |->
             image.px[<<p[1] + left, p[2] + upper>>]]]

\* int(x) of a float given as a count of halves: truncation toward zero.
PyIntOfHalves(n) == IF n >= 0 THEN n \div 2 ELSE 0 - ((0 - n) \div 2)

----------------------------------------------------------------------------
(* images.py                                                               *)

\* The center coordinate rounded toward negative infinity.
center_coord_floor(extent, cover_extent) == (extent - cover_extent) \div 2

\* center_x, center_y of paste_and_save_album_image.
center_coord(extent, cover_extent) == PyIntOfHalves(extent - cover_extent)

\* A compositor that draws the text on bg itself and allocates no canvas.
composite_on_bg(bg, text, width, height) == Paste(bg, text, 0, 0, TRUE)

\* The new RGB canvas with the background and the masked text pasted on it.
composite(bg, text, width, height) ==
  Paste(Paste(ImageNew("RGB", width, height), bg, 0, 0, FALSE), text, 0, 0, TRUE)

\* paste_and_save_album_image.  bg is the caller's image, mutated by the
\* first paste; emptyFails is the outcome of writing an image with a zero
\* extent, which depends on the Pillow release.
paste_and_save_album_image(bg, cover, display, text, emptyFails) ==
  LET width == display[1]
      height == display[2]
      center_x == center_coord(width, cover.width)
      center_y == center_coord(height, cover.height)
      bg1 == Paste(bg, cover, center_x, center_y, FALSE)
  IN IF width < 0 \/ height < 0
     THEN [exc |-> "ValueError", bg |-> bg1, center |-> <<center_x, center_y>>,
           saved |-> FALSE, file |-> NoImage]
     ELSE IF (width = 0 \/ height = 0) /\ emptyFails
     THEN [exc |-> "SystemError", bg |-> bg1, center |-> <<center_x, center_y>>,
           saved |-> FALSE, file |-> NoImage]
     ELSE [exc |-> "none", bg |-> bg1, center |-> <<center_x, center_y>>,
           saved |-> TRUE, file |-> composite(bg1, text, width, height)]

\* The text layer generate_text_image allocates: transparent RGBA, with one
\* opaque pixel at the origin when some glyph is drawn.
TextLayer(w, h, dot) ==
  [ImageNew("RGBA", w, h) EXCEPT
     !.px = [p \in Grid(w, h) |-> IF dot /\ p = <<0, 0>> THEN "T" ELSE "0"]]

\* new_width with the aspect ratio kept at full precision.
new_width_exact(image, target_height) ==
  (image.width * target_height) \div image.height

\* new_width = int(int(aspect_ratio) * int(new_height)).
new_width_of(image, target_height) ==
  (image.width \div image.height) * target_height

\* resize_and_center_image.
resize_and_center_image(image, target_width, target_height) ==
  IF image.height = 0
  THEN [exc |-> "ZeroDivisionError", resized |-> FALSE, image |-> NoImage]
  ELSE LET new_height == target_height
           new_width == new_width_of(image, target_height)
       IN IF new_width < 1 \/ new_height < 1
          THEN [exc |-> "ValueError", resized |-> FALSE, image |-> NoImage]
          ELSE LET resized_image == ImageResize(image, new_width, new_height)
                   x_offset == (new_width - target_width) \div 2
               IN [exc |-> "none", resized |-> TRUE,
                   image |-> IF new_width > target_width
                             THEN ImageCrop(resized_image, x_offset, 0,
                                            x_offset + target_width, new_height)
                             ELSE resized_image]

\* colors[i].rgb[0]**2 + colors[i].rgb[1]**2 + colors[i].rgb[2]**2.  The code
\* compares the square roots; on 0..195075 math.sqrt is strictly increasing,
\* so the comparison of the roots is the comparison of the sums.
DistanceSq(c) == c[1] * c[1] + c[2] * c[2] + c[3] * c[3]

\* find_darkest_color that returns its argument in the order given.
find_darkest_color_noswap(colors) == <<colors[1], colors[2]>>

\* find_darkest_color; colors is a pair, colors[1] is Python's colors[0].
find_darkest_color(colors) ==
  IF DistanceSq(colors[1]) > DistanceSq(colors[2])
  THEN <<colors[1], colors[2]>>
  ELSE <<colors[2], colors[1]>>

\* calculate_relative_luminance, in units of 1/10000.
calculate_relative_luminance(color) ==
  2126 * color[1] + 7152 * color[2] + 722 * color[3]

\* calculate_contrast_ratio: the quotient num / den, both in units of 1/10000.
calculate_contrast_ratio(color1, color2) ==
  LET l1 == calculate_relative_luminance(color1)
      l2 == calculate_relative_luminance(color2)
      luminance1 == IF l2 > l1 THEN l2 ELSE l1
      luminance2 == IF l2 > l1 THEN l1 ELSE l2
  IN [num |-> luminance1 + 500, den |-> luminance2 + 500]

----------------------------------------------------------------------------
(* The image pipeline: every behaviour is one call of one function of      *)
(* images.py.  Init draws the function and its arguments; the function's   *)
(* action runs it to completion (the pipeline is synchronous).             *)

\* What ImageCache/finalImage.png may hold before the call.
PreviousFiles == {NoImage, Uniform("RGB", 1, 1, "P")}

PasteArgs ==
  {[bg |-> Uniform("RGB", bw, bh, "B"),
    cover |-> Uniform("RGB", cw, ch, "C"),
    display |-> <<dw, dh>>,
    text |-> TextLayer(IF dw > 0 THEN dw ELSE 1, IF dh > 0 THEN dh ELSE 1, dot)] :
     bw \in 1..MaxDim, bh \in 1..MaxDim, cw \in 1..MaxDim, ch \in 1..MaxDim,
     dw \in DisplayValues, dh \in DisplayValues, dot \in BOOLEAN}

ResizeArgs ==
  {[image |-> Uniform("RGB", sw, sh, "C"), target_width |-> tw, target_height |-> th] :
     sw \in 0..MaxSrc, sh \in 0..MaxSrc, tw \in 0..MaxTarget, th \in 0..MaxTarget}

ColorPairs == {[color1 |-> a, color2 |-> b] : a \in Colors, b \in Colors}

ClientInit ==
  /\ token = "token"
  /\ max_tries = 3
  /\ retry_delay = 5
  /\ spPc = "idle"
  /\ attempt = 0
  /\ requests = 0
  /\ outcomes = <<>>
  /\ ret = "none"

Init ==
  /\ phase = "call"
  /\ res = [exc |-> "pending"]
  /\ \/ op = "paste_and_save_album_image" /\ args \in PasteArgs
        /\ finalImage \in PreviousFiles
     \/ op = "resize_and_center_image" /\ args \in ResizeArgs
        /\ finalImage = NoImage
     \/ op = "find_darkest_color" /\ args \in ColorPairs
        /\ finalImage = NoImage
     \/ op = "calculate_contrast_ratio" /\ args \in ColorPairs
        /\ finalImage = NoImage
  /\ ClientInit

PasteAndSave ==
  /\ phase = "call"
  /\ op = "paste_and_save_album_image"
  /\ \E emptyFails \in (IF args.display[1] = 0 \/ args.display[2] = 0
                        THEN BOOLEAN ELSE {FALSE}) :
       LET r == paste_and_save_album_image(args.bg, args.cover, args.display,
                                           args.text, emptyFails)
       IN /\ res' = r
          /\ finalImage' = IF r.saved THEN r.file ELSE finalImage
  /\ phase' = "return"
  /\ UNCHANGED <<op, args, spVars>>

ResizeAndCenter ==
  /\ phase = "call"
  /\ op = "resize_and_center_image"
  /\ res' = resize_and_center_image(args.image, args.target_width, args.target_height)
  /\ phase' = "return"
  /\ UNCHANGED <<op, args, finalImage, spVars>>

FindDarkestColor ==
  /\ phase = "call"
  /\ op = "find_darkest_color"
  /\ res' = [exc |-> "none",
             pair |-> find_darkest_color(<<args.color1, args.color2>>),
             swapped |-> find_darkest_color(<<args.color2, args.color1>>)]
  /\ phase' = "return"
  /\ UNCHANGED <<op, args, finalImage, spVars>>

CalculateContrastRatio ==
  /\ phase = "call"
  /\ op = "calculate_contrast_ratio"
  /\ res' = [exc |-> "none",
             ratio |-> calculate_contrast_ratio(args.color1, args.color2),
             swapped |-> calculate_contrast_ratio(args.color2, args.color1)]
  /\ phase' = "return"
  /\ UNCHANGED <<op, args, finalImage, spVars>>

Next ==
  \/ PasteAndSave
  \/ ResizeAndCenter
  \/ FindDarkestColor
  \/ CalculateContrastRatio

Spec == Init /\ [][Next]_vars

----------------------------------------------------------------------------
(* spotify.py: SpotifyClient.get_current_song, one action per step of its  *)
(* retry loop.  outcomes is the history of the requests of the call.       *)

\* Status codes other than 200 the endpoint answers with.
FailureStatus == {204, 401, 429}
\* Subclasses of requests.exceptions.RequestException raised by requests.get.
RequestExceptions == {"Timeout", "ConnectionError"}
\* Bodies of a 200 response.
Bodies == {"song_playing", "song_paused", "no_item", "not_json", "no_images"}

\* json.loads and the chain of .get() calls on the body of a 200 response:
\* the exception they raise, or "none".
ParseBody(body) ==
  CASE body = "not_json" -> "JSONDecodeError"
    [] body = "no_item" -> "AttributeError"
    [] body = "no_images" -> "IndexError"
    [] OTHER -> "none"

\* The except clause catches RequestException and its subclasses only.
Caught(exc) == exc \in RequestExceptions

\* A loop body that does not leave the loop on a 200 response.
attempt_result_noreturn(outcome) ==
  IF outcome.kind = "exception" /\ ~Caught(outcome.name) THEN "raise" ELSE "retry"

\* What one iteration of the for loop does with the outcome of its request:
\* "retry" (next iteration), "return" (return data) or "raise".
attempt_result(outcome) ==
  CASE outcome.kind = "status" -> "retry"
    [] outcome.kind = "exception" -> IF Caught(outcome.name) THEN "retry" ELSE "raise"
    [] outcome.kind = "ok" ->
         LET e == ParseBody(outcome.body)
         IN IF e = "none" THEN "return" ELSE IF Caught(e) THEN "retry" ELSE "raise"

\* The exception a raising iteration lets through.
raised_by(outcome) ==
  IF outcome.kind = "ok" THEN ParseBody(outcome.body) ELSE outcome.name

SpInit ==
  /\ op = "get_current_song"
  /\ args = [none |-> TRUE]
  /\ res = [exc |-> "pending"]
  /\ phase = "call"
  /\ finalImage = NoImage
  /\ ClientInit

\* The caller (a polling loop) calls get_current_song.
GetCurrentSong ==
  /\ spPc \in {"idle", "returned", "raised"}
  /\ token # "none"
  /\ spPc' = "loop"
  /\ attempt' = 0
  /\ requests' = 0
  /\ outcomes' = <<>>
  /\ ret' = "pending"
  /\ UNCHANGED <<imgVars, token, max_tries, retry_delay>>

\* One iteration of `for _ in range(self.max_tries)` whose request has the
\* given outcome.
Iteration(outcome) ==
  /\ spPc = "loop"
  /\ attempt < max_tries
  /\ requests' = requests + 1
  /\ outcomes' = Append(outcomes, outcome)
  /\ LET r == attempt_result(outcome)
     IN /\ spPc' = CASE r = "retry" -> "loop"
                     [] r = "return" -> "returned"
                     [] OTHER -> "raised"
        /\ attempt' = IF r = "retry" THEN attempt + 1 ELSE attempt
        /\ ret' = CASE r = "retry" -> ret
                    [] r = "return" -> "data"
                    [] OTHER -> raised_by(outcome)
  /\ UNCHANGED <<imgVars, token, max_tries, retry_delay>>

RequestNon200 ==
  \E code \in FailureStatus : Iteration([kind |-> "status", code |-> code])

RequestRaises ==
  \E name \in RequestExceptions : Iteration([kind |-> "exception", name |-> name])

Request200 ==
  \E body \in Bodies : Iteration([kind |-> "ok", body |-> body])

\* The loop ran max_tries times: return None.
LoopExhausted ==
  /\ spPc = "loop"
  /\ attempt >= max_tries
  /\ spPc' = "returned"
  /\ ret' = "None"
  /\ UNCHANGED <<imgVars, token, max_tries, retry_delay, attempt, requests, outcomes>>

SpStep == RequestNon200 \/ RequestRaises \/ Request200 \/ LoopExhausted

SpNext ==
  \/ GetCurrentSong
  \/ RequestNon200
  \/ RequestRaises
  \/ Request200
  \/ LoopExhausted

\* requests.get has a timeout and the loop body is synchronous: a call that
\* is in its loop takes its next step.
SpotifySpec == SpInit /\ [][SpNext]_vars /\ WF_vars(SpStep)

----------------------------------------------------------------------------
(* Properties.                                                             *)

Returned(f) == op = f /\ phase = "return"

PositiveDisplay == args.display[1] > 0 /\ args.display[2] > 0

\* C1: with a display of positive integers, whatever the sizes of the
\* background, the cover and the text layer, the call succeeds and the file
\* it writes is an RGB image of exactly display width x display height with
\* no transparent pixel.
C1_OutputHasDisplaySize ==
  (Returned("paste_and_save_album_image") /\ PositiveDisplay) =>
    /\ res.exc = "none"
    /\ res.saved
    /\ finalImage.mode = "RGB"
    /\ finalImage.width = args.display[1]
    /\ finalImage.height = args.display[2]
    /\ DOMAIN finalImage.px = Grid(args.display[1], args.display[2])
    /\ \A p \in DOMAIN finalImage.px : Opaque(finalImage.px[p])

\* A call whose background is narrower and whose cover is wider than the
\* display, with some text drawn.
C1_Witness ==
  /\ Returned("paste_and_save_album_image")
  /\ PositiveDisplay
  /\ args.bg.width < args.display[1]
  /\ args.cover.width > args.display[1]
  /\ args.bg.height > args.display[2]
  /\ args.text.px[<<0, 0>>] = "T"
  /\ finalImage.width = args.display[1]

PositiveResizeInput ==
  /\ args.image.width > 0
  /\ args.image.height > 0
  /\ args.target_width > 0
  /\ args.target_height > 0

\* C2: for every source image of positive width and height and every
\* positive target, resize_and_center_image returns an image whose height
\* is target_height.
C2_HeightIsTarget ==
  (Returned("resize_and_center_image") /\ PositiveResizeInput) =>
    /\ res.exc = "none"
    /\ res.image.height = args.target_height

\* floor(source_width / source_height) * target_height of the call.
ClaimedNewWidth == (args.image.width \div args.image.height) * args.target_height

\* C3 as stated: whenever an image is returned, its width is target_width
\* only when new_width > target_width, and otherwise it is new_width and
\* differs from target_width.
C3_WidthOnlyWhenGreater ==
  (Returned("resize_and_center_image") /\ PositiveResizeInput /\ res.exc = "none") =>
    /\ (res.image.width = args.target_width) <=> (ClaimedNewWidth > args.target_width)
    /\ ~(ClaimedNewWidth > args.target_width) =>
         (res.image.width = ClaimedNewWidth /\ res.image.width # args.target_width)

\* C3 amended: an image is returned exactly when new_width >= 1; its width
\* is target_width exactly when new_width >= target_width (cropped when
\* greater, the resized image itself when equal), and it is new_width,
\* different from target_width, when new_width < target_width.
C3_WidthIsMin ==
  (Returned("resize_and_center_image") /\ PositiveResizeInput) =>
    /\ (res.exc = "none") <=> (ClaimedNewWidth >= 1)
    /\ res.exc = "none" =>
         /\ (res.image.width = args.target_width) <=>
              (ClaimedNewWidth >= args.target_width)
         /\ ClaimedNewWidth < args.target_width =>
              (res.image.width = ClaimedNewWidth /\ res.image.width # args.target_width)
         /\ ClaimedNewWidth = args.target_width =>
              res.image = ImageResize(args.image, ClaimedNewWidth, args.target_height)

\* A call in which new_width equals target_width and neither is the source width.
C3_Witness ==
  /\ Returned("resize_and_center_image")
  /\ PositiveResizeInput
  /\ res.exc = "none"
  /\ ClaimedNewWidth = args.target_width
  /\ args.image.width # args.target_width
  /\ args.image.width # args.image.height
  /\ res.image.width = args.target_width

DistancesDiffer == DistanceSq(args.color1) # DistanceSq(args.color2)

\* C4: for two colors at different distances from black, the returned pair
\* has the color closer to black first and the farther one second.
C4_CloserToBlackFirst ==
  (Returned("find_darkest_color") /\ DistancesDiffer) =>
    DistanceSq(res.pair[1]) < DistanceSq(res.pair[2])

\* C5 as stated: for every two colors, ties included, the first element of
\* find_darkest_color([a, b]) is the first element of find_darkest_color([b, a]).
C5_SwapKeepsFirst ==
  Returned("find_darkest_color") => res.pair[1] = res.swapped[1]

\* C5 amended: for two colors at different distances from black, or two
\* equal colors, both argument orders return the same first element.
C5_SwapKeepsFirstNoTie ==
  (Returned("find_darkest_color") /\ (DistancesDiffer \/ args.color1 = args.color2)) =>
    res.pair[1] = res.swapped[1]

\* A call whose first argument is the one closer to black.
C5_Witness ==
  /\ Returned("find_darkest_color")
  /\ DistanceSq(args.color1) < DistanceSq(args.color2)
  /\ res.pair[1] = args.color2
  /\ res.swapped[1] = args.color2

Black == <<0, 0, 0>>
White == <<255, 255, 255>>

Abs(n) == IF n >= 0 THEN n ELSE 0 - n

InvalidDisplay == args.display[1] <= 0 \/ args.display[2] <= 0

InvalidResizeInput ==
  \/ args.image.width = 0
  \/ args.image.height = 0
  \/ args.target_width <= 0
  \/ args.target_height <= 0

\* C7: with a non-positive display extent or a source image with a zero
\* extent the call fails before any raster work: the resizer resizes
\* nothing, the compositor leaves the caller's background as it was and
\* writes no file.
C7_InvalidGeometryRejected ==
  /\ (Returned("paste_and_save_album_image") /\ InvalidDisplay) =>
       (res.exc # "none" /\ res.bg = args.bg /\ ~res.saved)
  /\ (Returned("resize_and_center_image") /\ InvalidResizeInput) =>
       (res.exc # "none" /\ ~res.resized)

\* The offset the code computes for one axis: the half difference rounded
\* toward zero.
TruncatedHalf(d) == IF d >= 0 THEN d \div 2 ELSE 0 - ((0 - d) \div 2)

\* C10 as stated: the cover is pasted at the half differences rounded toward
\* negative infinity.
C10_OffsetIsFloor ==
  (Returned("paste_and_save_album_image") /\ PositiveDisplay) =>
    res.center = <<(args.display[1] - args.cover.width) \div 2,
                   (args.display[2] - args.cover.height) \div 2>>

\* C10 amended: the cover is pasted at the half differences rounded toward
\* zero, and the background holds the cover's pixels exactly in the box
\* that starts at that offset.
C10_OffsetIsTruncation ==
  (Returned("paste_and_save_album_image") /\ PositiveDisplay) =>
    LET cx == TruncatedHalf(args.display[1] - args.cover.width)
        cy == TruncatedHalf(args.display[2] - args.cover.height)
    IN /\ res.center = <<cx, cy>>
       /\ \A p \in Grid(args.bg.width, args.bg.height) :
            (res.bg.px[p] = "C") <=>
              /\ p[1] - cx \in 0..(args.cover.width - 1)
              /\ p[2] - cy \in 0..(args.cover.height - 1)

\* A call whose cover is wider than the display by an odd difference.
C10_Witness ==
  /\ Returned("paste_and_save_album_image")
  /\ PositiveDisplay
  /\ args.cover.width = args.display[1] + 1
  /\ args.cover.height < args.display[2]
  /\ res.center[1] = 0

Failed(outcome) == outcome.kind \in {"status", "exception"}

\* C8: a call issues at most max_tries requests, every request but the last
\* of a call failed (non-200 or request exception), no request follows a
\* 200 response, and a call that is in its loop leaves it.
C8_BoundedRetries ==
  /\ [](/\ requests <= max_tries
        /\ max_tries = 3
        /\ Len(outcomes) = requests
        /\ \A i \in 1..(Len(outcomes) - 1) : Failed(outcomes[i])
        /\ (spPc \in {"returned", "raised"} /\ requests < max_tries) =>
             outcomes[requests].kind = "ok")
  /\ (spPc = "loop") ~> (spPc # "loop")

\* A call that failed twice and stopped at its third request, a 200.
C8_Witness ==
  /\ spPc = "returned"
  /\ requests = 3
  /\ ret = "data"
  /\ outcomes = <<[kind |-> "status", code |-> 204],
                  [kind |-> "exception", name |-> "Timeout"],
                  [kind |-> "ok", body |-> "song_playing"]>>

\* C9: a finished call whose attempts all failed, or whose 200 response has
\* no playable item or is not JSON, returned None and raised nothing.
C9_NoneOnFailure ==
  (/\ spPc \in {"returned", "raised"}
   /\ requests > 0
   /\ \/ \A i \in 1..Len(outcomes) : Failed(outcomes[i])
      \/ /\ outcomes[requests].kind = "ok"
         /\ outcomes[requests].body \in {"no_item", "not_json"}) =>
    (spPc = "returned" /\ ret = "None")

====
